---- MODULE Spec2Model ----
(***************************************************************************)
(* TuiTunes: the Player (player.go) driven by the Bubble Tea Model's key   *)
(* handlers.  Strings that are searched are sequences of one-character     *)
(* strings; indices are 0-based as in the Go code (sequence access adds 1).*)
(***************************************************************************)
EXTENDS Integers, Sequences, FiniteSets, TLC

VARIABLES player, ctrls, model, lastOp, lastErr, decodes, prevCur, before, crashed,
          pos, sink, race, shown

vars == <<player, ctrls, model, lastOp, lastErr, decodes, prevCur, before,
          crashed, pos, sink, race, shown>>

(* ------------------------------ bounds --------------------------------- *)
\* longest query typed in search mode
MaxQuery == 2
\* number of successful loads (handles handed to the speaker) explored
MaxLoads == 2
\* samples in a decoded stream (Streamer.Len())
MaxSamples == 1
\* entries visited by one directory walk
MaxWalk == 3

(* --------------------------- PlayerState ------------------------------- *)
Stopped == "Stopped"
Playing == "Playing"
Paused == "Paused"

\* nil *beep.Ctrl, nil beep.StreamSeeker, zero beep.Format
NoCtrl == 0
NoStream == [id |-> 0, path |-> ""]
NoFormat == ""

(* ------------------------------ errors --------------------------------- *)
ErrNil == "nil"
ErrEmpty == "no songs found"
ErrLoad == "can't load song"
ErrNoSongs == "no songs"
ErrEnd == "at the end"
ErrBegin == "at the beginning"
ErrWalk == "walk error"
ErrInit == "couldn't find music"

(* ------------------------------ strings -------------------------------- *)
LowerChar(c) ==
    CASE c = "A" -> "a"
      [] c = "B" -> "b"
      [] c = "C" -> "c"
      [] OTHER -> c

ToLower(s) == [i \in 1..Len(s) |-> LowerChar(s[i])]

Contains(s, sub) ==
    \E i \in 0..(Len(s) - Len(sub)) : SubSeq(s, i + 1, i + Len(sub)) = sub

(* ------------------------------ catalog -------------------------------- *)
\* Tracks as ScanMusicFiles/extractMetadata build them: artist and album
\* from the two directories above the file, title from the file name.
Track1 == [Path |-> "A/b/ab.mp3", Title |-> <<"a", "b">>,
           Artist |-> <<"A">>, Album |-> <<"b">>]
Track2 == [Path |-> "b/Ba.mp3", Title |-> <<"B", "a">>,
           Artist |-> <<"b">>, Album |-> <<>>]
Track3 == [Path |-> "c.mp3", Title |-> <<"c">>,
           Artist |-> <<>>, Album |-> <<>>]

\* catalogs sorted by path, as the scan leaves them
Catalogs == { <<>>, <<Track1, Track3>>, <<Track1, Track2, Track3>> }

\* one-character keys typed while in search mode
QueryKeys == {"a", "B"}

(* ------------------------------ Player --------------------------------- *)
\* NewPlayer followed by Initialize: zero values, FilteredTracks = Tracks
NewPlayer(tracks) ==
    [Tracks |-> tracks, CurrentTrack |-> 0, State |-> Stopped,
     Repeat |-> FALSE, Shuffle |-> FALSE, SearchQuery |-> <<>>,
     FilteredTracks |-> tracks, Streamer |-> NoStream, Ctrl |-> NoCtrl,
     Format |-> NoFormat, LoadedTrack |-> 0]

\* value handed back by a Player method: the player, the heap of handles
\* given to the speaker, the returned error, the number of loadTrack calls,
\* and whether the call panicked
Ret(p, cs, err, n) ==
    [p |-> p, ctrls |-> cs, err |-> err, decodes |-> n, panic |-> FALSE]

Panic(p, cs, n) ==
    [p |-> p, ctrls |-> cs, err |-> ErrNil, decodes |-> n, panic |-> TRUE]

SetPaused(cs, c, b) == [cs EXCEPT ![c] = [Paused |-> b]]

\* PlayLoad that does not pause the handle it replaces
PlayLoadKeepsOld(p, cs, ok) ==
    IF p.CurrentTrack < 0 \/ p.CurrentTrack >= Len(p.FilteredTracks)
    THEN Panic(p, cs, 0)
    ELSE
      LET track == p.FilteredTracks[p.CurrentTrack + 1]
          id == Len(cs) + 1
      IN
      IF ~ok THEN Ret(p, cs, ErrLoad, 1)
      ELSE Ret([p EXCEPT !.Streamer = [id |-> id, path |-> track.Path],
                         !.Format = track.Path,
                         !.Ctrl = id,
                         !.LoadedTrack = p.CurrentTrack,
                         !.State = Playing],
               Append(cs, [Paused |-> FALSE]), ErrNil, 1)

\* Player.Play, "load the new song": pause the active handle, call
\* loadTrack (ok is its outcome), install the stream and a fresh handle
PlayLoad(p, cs, ok) ==
    IF p.CurrentTrack < 0 \/ p.CurrentTrack >= Len(p.FilteredTracks)
    THEN Panic(p, cs, 0)
    ELSE
      LET track == p.FilteredTracks[p.CurrentTrack + 1]
          cs1 == IF p.Ctrl # NoCtrl THEN SetPaused(cs, p.Ctrl, TRUE) ELSE cs
          id == Len(cs) + 1
      IN
      IF ~ok THEN Ret(p, cs1, ErrLoad, 1)
      ELSE Ret([p EXCEPT !.Streamer = [id |-> id, path |-> track.Path],
                         !.Format = track.Path,
                         !.Ctrl = id,
                         !.LoadedTrack = p.CurrentTrack,
                         !.State = Playing],
               Append(cs1, [Paused |-> FALSE]), ErrNil, 1)

\* PlayLoaded without the "already playing the same song" case
PlayLoadedAlwaysReloads(p, cs, ok) ==
    IF p.State = Paused /\ p.Streamer # NoStream
                        /\ p.LoadedTrack = p.CurrentTrack
    THEN IF p.Ctrl = NoCtrl THEN Panic(p, cs, 0)
         ELSE Ret([p EXCEPT !.State = Playing],
                  SetPaused(cs, p.Ctrl, FALSE), ErrNil, 0)
    ELSE PlayLoad(p, cs, ok)

\* Player.Play, the two cases for the song that is already loaded
PlayLoaded(p, cs, ok) ==
    IF p.State = Paused /\ p.Streamer # NoStream
                        /\ p.LoadedTrack = p.CurrentTrack
    THEN IF p.Ctrl = NoCtrl THEN Panic(p, cs, 0)
         ELSE Ret([p EXCEPT !.State = Playing],
                  SetPaused(cs, p.Ctrl, FALSE), ErrNil, 0)
    ELSE IF p.State = Playing /\ p.Streamer # NoStream
                              /\ p.LoadedTrack = p.CurrentTrack
    THEN Ret(p, cs, ErrNil, 0)
    ELSE PlayLoad(p, cs, ok)

\* ClampCurrent resetting one index too early
ClampCurrentOffByOne(p) ==
    IF p.CurrentTrack >= Len(p.FilteredTracks) - 1
    THEN [p EXCEPT !.CurrentTrack = 0] ELSE p

\* ClampCurrent letting the index one past the end through
ClampCurrentStrict(p) ==
    IF p.CurrentTrack > Len(p.FilteredTracks)
    THEN [p EXCEPT !.CurrentTrack = 0] ELSE p

\* Player.Play, "if p.CurrentTrack >= len(p.FilteredTracks)"
ClampCurrent(p) ==
    IF p.CurrentTrack >= Len(p.FilteredTracks)
    THEN [p EXCEPT !.CurrentTrack = 0] ELSE p

\* Play resetting the index before looking at the length of the view
PlayClampsFirst(p, cs, ok) ==
    IF Len(p.FilteredTracks) = 0 THEN Ret(ClampCurrent(p), cs, ErrEmpty, 0)
    ELSE PlayLoaded(ClampCurrent(p), cs, ok)

\* Player.Play
Play(p, cs, ok) ==
    IF Len(p.FilteredTracks) = 0 THEN Ret(p, cs, ErrEmpty, 0)
    ELSE PlayLoaded(ClampCurrent(p), cs, ok)

\* Pause without the check of the state
PauseUnguarded(p, cs) ==
    IF p.Ctrl = NoCtrl THEN Ret(p, cs, ErrNil, 0)
    ELSE Ret([p EXCEPT !.State = Paused], SetPaused(cs, p.Ctrl, TRUE),
             ErrNil, 0)

\* Player.Pause
Pause(p, cs) ==
    IF p.Ctrl = NoCtrl THEN Ret(p, cs, ErrNil, 0)
    ELSE IF p.State = Playing
         THEN Ret([p EXCEPT !.State = Paused], SetPaused(cs, p.Ctrl, TRUE),
                  ErrNil, 0)
         ELSE Ret(p, cs, ErrNil, 0)

\* Player.Resume
Resume(p, cs) ==
    IF p.Ctrl = NoCtrl THEN Ret(p, cs, ErrNil, 0)
    ELSE IF p.State = Paused
         THEN Ret([p EXCEPT !.State = Playing], SetPaused(cs, p.Ctrl, FALSE),
                  ErrNil, 0)
         ELSE Ret(p, cs, ErrNil, 0)

\* Player.Stop
Stop(p, cs) ==
    Ret([p EXCEPT !.State = Stopped, !.LoadedTrack = -1],
        IF p.Ctrl # NoCtrl THEN SetPaused(cs, p.Ctrl, TRUE) ELSE cs,
        ErrNil, 0)

\* NextTrack leaving the index past the end when it reports the end
NextTrackNoClamp(p, cs, ok) ==
    IF Len(p.FilteredTracks) = 0 THEN Ret(p, cs, ErrNoSongs, 0)
    ELSE
      LET n == p.CurrentTrack + 1 IN
      IF n >= Len(p.FilteredTracks)
      THEN IF p.Repeat
           THEN Play([p EXCEPT !.CurrentTrack = 0], cs, ok)
           ELSE Ret([p EXCEPT !.CurrentTrack = n], cs, ErrEnd, 0)
      ELSE Play([p EXCEPT !.CurrentTrack = n], cs, ok)

\* NextTrack that never wraps
NextTrackIgnoresRepeat(p, cs, ok) ==
    IF Len(p.FilteredTracks) = 0 THEN Ret(p, cs, ErrNoSongs, 0)
    ELSE
      LET n == p.CurrentTrack + 1 IN
      IF n >= Len(p.FilteredTracks)
      THEN Ret([p EXCEPT !.CurrentTrack = Len(p.FilteredTracks) - 1],
               cs, ErrEnd, 0)
      ELSE Play([p EXCEPT !.CurrentTrack = n], cs, ok)

\* NextTrack without the check for an empty view
NextTrackNoEmptyCheck(p, cs, ok) ==
    LET n == p.CurrentTrack + 1 IN
    IF n >= Len(p.FilteredTracks)
    THEN IF p.Repeat
         THEN Play([p EXCEPT !.CurrentTrack = 0], cs, ok)
         ELSE Ret([p EXCEPT !.CurrentTrack = Len(p.FilteredTracks) - 1],
                  cs, ErrEnd, 0)
    ELSE Play([p EXCEPT !.CurrentTrack = n], cs, ok)

\* Player.NextTrack
NextTrack(p, cs, ok) ==
    IF Len(p.FilteredTracks) = 0 THEN Ret(p, cs, ErrNoSongs, 0)
    ELSE
      LET n == p.CurrentTrack + 1 IN
      IF n >= Len(p.FilteredTracks)
      THEN IF p.Repeat
           THEN Play([p EXCEPT !.CurrentTrack = 0], cs, ok)
           ELSE Ret([p EXCEPT !.CurrentTrack = Len(p.FilteredTracks) - 1],
                    cs, ErrEnd, 0)
      ELSE Play([p EXCEPT !.CurrentTrack = n], cs, ok)

\* Player.PreviousTrack
PreviousTrack(p, cs, ok) ==
    IF Len(p.FilteredTracks) = 0 THEN Ret(p, cs, ErrNoSongs, 0)
    ELSE
      LET n == p.CurrentTrack - 1 IN
      IF n < 0
      THEN IF p.Repeat
           THEN Play([p EXCEPT !.CurrentTrack = Len(p.FilteredTracks) - 1],
                     cs, ok)
           ELSE Ret([p EXCEPT !.CurrentTrack = 0], cs, ErrBegin, 0)
      ELSE Play([p EXCEPT !.CurrentTrack = n], cs, ok)

\* ToggleShuffle that reorders the view
ToggleShuffleReorders(p) ==
    [p EXCEPT !.Shuffle = ~p.Shuffle,
              !.FilteredTracks =
                 [i \in 1..Len(p.FilteredTracks) |->
                    p.FilteredTracks[Len(p.FilteredTracks) + 1 - i]]]

\* Player.ToggleRepeat, Player.ToggleShuffle
ToggleRepeat(p) == [p EXCEPT !.Repeat = ~p.Repeat]
ToggleShuffle(p) == [p EXCEPT !.Shuffle = ~p.Shuffle]

\* the filter loop of Player.Search over p.Tracks
Matches(track, q) ==
    \/ Contains(ToLower(track.Title), q)
    \/ Contains(ToLower(track.Artist), q)
    \/ Contains(ToLower(track.Album), q)

\* Search comparing the query as typed with the lowered fields
SearchQueryAsTyped(p, query) ==
    IF query = <<>>
    THEN [p EXCEPT !.SearchQuery = query, !.FilteredTracks = p.Tracks]
    ELSE [p EXCEPT !.SearchQuery = query,
                   !.FilteredTracks =
                       SelectSeq(p.Tracks, LAMBDA t : Matches(t, query))]

\* Player.Search
Search(p, query) ==
    IF query = <<>>
    THEN [p EXCEPT !.SearchQuery = query, !.FilteredTracks = p.Tracks]
    ELSE [p EXCEPT !.SearchQuery = query,
                   !.FilteredTracks =
                       SelectSeq(p.Tracks, LAMBDA t : Matches(t, ToLower(query)))]

\* Player.GetCurrentTrack, as a 0-based index or -1 for nil
GetCurrentTrack(p) ==
    IF Len(p.FilteredTracks) = 0 \/ p.CurrentTrack >= Len(p.FilteredTracks)
    THEN -1 ELSE p.CurrentTrack

\* samples the speaker has drawn from the stream of handle h
PosOf(ps, h) == IF h \in DOMAIN ps THEN ps[h] ELSE 0

\* Player.GetPosition and Player.GetLength, in sample periods
GetPosition(p, ps) ==
    IF p.Streamer = NoStream THEN 0 ELSE PosOf(ps, p.Streamer.id)

GetLength(p) ==
    IF p.Streamer = NoStream THEN 0 ELSE MaxSamples

(* ------------------------------ history -------------------------------- *)
\* lastOp, lastErr, decodes: the Player method the last key or call ran, the
\* error it returned and the number of loadTrack calls it made; prevCur:
\* CurrentTrack before that call; before: the same for the call preceding
\* it, kept when that call was Play or NextTrack.
NoBefore == [op |-> "Init", cur |-> 0, err |-> ErrNil]

\* the speaker's callback is not inside any handle
NoSink == [at |-> 0, saw |-> FALSE]

(* ------------------------------- Model --------------------------------- *)
NewModel == [cursor |-> 0, searchMode |-> FALSE, searchQuery |-> <<>>]

Init ==
    /\ \E tracks \in Catalogs : player = NewPlayer(tracks)
    /\ ctrls = <<>>
    /\ model = NewModel
    /\ lastOp = "Init"
    /\ lastErr = ErrNil
    /\ decodes = 0
    /\ prevCur = 0
    /\ before = NoBefore
    /\ crashed = FALSE
    /\ pos = <<>>
    /\ sink = NoSink
    /\ race = FALSE
    /\ shown = [pos |-> 0, len |-> 0]

\* outcomes of loadTrack explored: it may always fail; it succeeds only
\* while fewer than MaxLoads handles were created
LoadOutcomes == IF Len(ctrls) < MaxLoads THEN BOOLEAN ELSE {FALSE}

\* the effect of a Player method call that returned r
Called(op, r) ==
    /\ player' = r.p
    /\ ctrls' = r.ctrls
    /\ lastOp' = op
    /\ lastErr' = r.err
    /\ decodes' = r.decodes
    /\ prevCur' = player.CurrentTrack
    /\ before' = IF lastOp \in {"Play", "NextTrack"}
                 THEN [op |-> lastOp, cur |-> prevCur, err |-> lastErr]
                 ELSE NoBefore
    /\ crashed' = r.panic
    /\ race' = (race \/ (sink.at # 0 /\ r.ctrls[sink.at] # ctrls[sink.at]))
    /\ UNCHANGED <<pos, sink, shown>>

\* a key that calls no Player method returning something
Quiet(op, p) == Called(op, Ret(p, ctrls, ErrNil, 0))

Normal == ~crashed /\ ~model.searchMode

(* --- handleKeyPress, one action per case --- *)
KeySlash ==
    /\ Normal
    /\ model' = [model EXCEPT !.searchMode = TRUE, !.searchQuery = <<>>]
    /\ Quiet("Key", player)

KeySpace ==
    /\ Normal
    /\ \E ok \in LoadOutcomes :
         IF player.State = Playing THEN Called("Pause", Pause(player, ctrls))
         ELSE IF player.State = Paused
              THEN Called("Resume", Resume(player, ctrls))
              ELSE Called("Play", Play(player, ctrls, ok))
    /\ UNCHANGED model

KeyN ==
    /\ Normal
    /\ \E ok \in LoadOutcomes : Called("NextTrack", NextTrack(player, ctrls, ok))
    /\ UNCHANGED model

KeyP ==
    /\ Normal
    /\ \E ok \in LoadOutcomes :
         Called("PreviousTrack", PreviousTrack(player, ctrls, ok))
    /\ UNCHANGED model

KeyR ==
    /\ Normal
    /\ Quiet("ToggleRepeat", ToggleRepeat(player))
    /\ UNCHANGED model

KeyS ==
    /\ Normal
    /\ Quiet("ToggleShuffle", ToggleShuffle(player))
    /\ UNCHANGED model

KeyDown ==
    /\ Normal
    /\ model' = IF model.cursor < Len(player.FilteredTracks) - 1
                THEN [model EXCEPT !.cursor = model.cursor + 1] ELSE model
    /\ Quiet("Cursor", player)

KeyUp ==
    /\ Normal
    /\ model' = IF model.cursor > 0
                THEN [model EXCEPT !.cursor = model.cursor - 1] ELSE model
    /\ Quiet("Cursor", player)

KeyTop ==
    /\ Normal
    /\ model' = [model EXCEPT !.cursor = 0]
    /\ Quiet("Cursor", player)

KeyBottom ==
    /\ Normal
    /\ model' = [model EXCEPT !.cursor = Len(player.FilteredTracks) - 1]
    /\ Quiet("Cursor", player)

KeyEnter ==
    /\ Normal
    /\ IF Len(player.FilteredTracks) > 0
          /\ model.cursor < Len(player.FilteredTracks)
       THEN \E ok \in LoadOutcomes :
              Called("Enter",
                     Play([player EXCEPT !.CurrentTrack = model.cursor],
                          ctrls, ok))
       ELSE Quiet("Key", player)
    /\ UNCHANGED model

(* --- handleSearchInput, one action per case --- *)
SearchEnter ==
    /\ ~crashed /\ model.searchMode
    /\ model' = [model EXCEPT !.searchMode = FALSE, !.cursor = 0]
    /\ Quiet("Search", Search(player, model.searchQuery))

SearchEsc ==
    /\ ~crashed /\ model.searchMode
    /\ model' = [model EXCEPT !.searchMode = FALSE, !.searchQuery = <<>>]
    /\ Quiet("Key", player)

SearchBackspace ==
    /\ ~crashed /\ model.searchMode
    /\ model' = IF Len(model.searchQuery) > 0
                THEN [model EXCEPT !.searchQuery =
                        SubSeq(model.searchQuery, 1, Len(model.searchQuery) - 1)]
                ELSE model
    /\ Quiet("Key", player)

SearchType ==
    /\ ~crashed /\ model.searchMode
    /\ Len(model.searchQuery) < MaxQuery
    /\ \E c \in QueryKeys :
         model' = [model EXCEPT !.searchQuery = Append(model.searchQuery, c)]
    /\ Quiet("Key", player)

(* --- Player methods called directly by the dispatch loop --- *)
CallPlay ==
    /\ Normal
    /\ \E ok \in LoadOutcomes : Called("Play", Play(player, ctrls, ok))
    /\ UNCHANGED model

CallPause ==
    /\ Normal
    /\ Called("Pause", Pause(player, ctrls))
    /\ UNCHANGED model

CallResume ==
    /\ Normal
    /\ Called("Resume", Resume(player, ctrls))
    /\ UNCHANGED model

CallStop ==
    /\ Normal
    /\ Called("Stop", Stop(player, ctrls))
    /\ UNCHANGED model

\* Player.GetPosition and Player.GetLength called by the dispatch loop; the
\* read of the stream's position is unsynchronised with the speaker
CallGetPosition ==
    /\ Normal
    /\ shown' = [pos |-> GetPosition(player, pos), len |-> GetLength(player)]
    /\ race' = (race \/ (player.Streamer # NoStream
                          /\ sink.at = player.Streamer.id /\ ~sink.saw))
    /\ lastOp' = "GetPosition"
    /\ UNCHANGED <<player, ctrls, model, lastErr, decodes, prevCur, before,
                   crashed, pos, sink>>

(* --- the speaker, running beside the dispatch loop --- *)
\* the callback enters a handle given to speaker.Play and reads its flag
SinkBegin ==
    /\ ~crashed
    /\ sink.at = 0
    /\ \E h \in 1..Len(ctrls) : sink' = [at |-> h, saw |-> ctrls[h].Paused]
    /\ UNCHANGED <<player, ctrls, model, lastOp, lastErr, decodes, prevCur,
                   before, crashed, pos, race, shown>>

\* the callback leaves the handle; an unpaused, unfinished stream has
\* advanced by one sample.  When the flag was written meanwhile, either
\* value may have been the one that was read.
SinkEnd ==
    /\ ~crashed
    /\ sink.at # 0
    /\ \E paused \in {sink.saw, ctrls[sink.at].Paused} :
         pos' = IF ~paused /\ PosOf(pos, sink.at) < MaxSamples
                THEN [h \in 1..Len(ctrls) |->
                        IF h = sink.at THEN PosOf(pos, h) + 1 ELSE PosOf(pos, h)]
                ELSE pos
    /\ sink' = NoSink
    /\ UNCHANGED <<player, ctrls, model, lastOp, lastErr, decodes, prevCur,
                   before, crashed, race, shown>>

NextSink ==
    \/ KeySpace \/ KeyN \/ KeyP \/ CallPlay \/ CallStop
    \/ CallGetPosition \/ SinkBegin \/ SinkEnd

\* the transport commands with the speaker running concurrently
SpecSink == Init /\ [][NextSink]_vars

(* --- scanning the music directory --- *)
\* what filepath.WalkDir hands to the callback: an entry that reports an
\* error, a directory, a file of another type, or an audio file
WalkEntries ==
    {[kind |-> "err"], [kind |-> "dir"], [kind |-> "other"]}
      \cup {[kind |-> "audio", track |-> t] : t \in {Track1, Track2, Track3}}

\* place of a path in the lexical order of the paths
PathRank(t) ==
    CASE t = Track1 -> 1
      [] t = Track2 -> 2
      [] t = Track3 -> 3

\* walks of at most MaxWalk entries; WalkDir visits the entries in lexical
\* order, each once
Walks ==
    UNION {{w \in [1..n -> WalkEntries] :
              \A i, k \in 1..n :
                 (i < k /\ w[i].kind = "audio" /\ w[k].kind = "audio") =>
                     PathRank(w[i].track) < PathRank(w[k].track)} :
           n \in 0..MaxWalk}

\* the callback of WalkDir applied to the entries from i on
RECURSIVE WalkFrom(_, _, _)
WalkFrom(tracks, w, i) ==
    IF i > Len(w) THEN [tracks |-> tracks, err |-> ErrNil]
    ELSE IF w[i].kind = "err" THEN [tracks |-> tracks, err |-> ErrWalk]
    ELSE IF w[i].kind = "audio"
         THEN WalkFrom(Append(tracks, w[i].track), w, i + 1)
         ELSE WalkFrom(tracks, w, i + 1)

\* sort.Slice by Path
RECURSIVE InsertByPath(_, _)
InsertByPath(sorted, t) ==
    IF sorted = <<>> THEN <<t>>
    ELSE IF PathRank(t) < PathRank(Head(sorted)) THEN <<t>> \o sorted
    ELSE <<Head(sorted)>> \o InsertByPath(Tail(sorted), t)

RECURSIVE SortByPath(_)
SortByPath(tracks) ==
    IF tracks = <<>> THEN <<>>
    ELSE InsertByPath(SortByPath(SubSeq(tracks, 1, Len(tracks) - 1)),
                      tracks[Len(tracks)])

\* Player.ScanMusicFiles
ScanMusicFiles(p, w) ==
    LET r == WalkFrom(<<>>, w, 1) IN
    IF r.err # ErrNil THEN [p |-> [p EXCEPT !.Tracks = r.tracks], err |-> r.err]
    ELSE [p |-> [p EXCEPT !.Tracks = SortByPath(r.tracks)], err |-> ErrNil]

\* Player.Initialize
Initialize(p, w) ==
    LET r == ScanMusicFiles(p, w) IN
    IF r.err # ErrNil THEN [p |-> r.p, err |-> ErrInit]
    ELSE [p |-> [r.p EXCEPT !.FilteredTracks = r.p.Tracks], err |-> ErrNil]

\* the player right after NewPlayer, before Initialize
InitScan ==
    /\ player = NewPlayer(<<>>)
    /\ ctrls = <<>>
    /\ model = NewModel
    /\ lastOp = "New"
    /\ lastErr = ErrNil
    /\ decodes = 0
    /\ prevCur = 0
    /\ before = NoBefore
    /\ crashed = FALSE
    /\ pos = <<>>
    /\ sink = NoSink
    /\ race = FALSE
    /\ shown = [pos |-> 0, len |-> 0]

\* main: Initialize; a failure ends the process (log.Fatalf)
MainInitialize ==
    /\ lastOp = "New"
    /\ \E w \in Walks :
         LET r == Initialize(player, w) IN
           /\ player' = r.p
           /\ lastErr' = r.err
           /\ lastOp' = IF r.err = ErrNil THEN "Initialize" ELSE "Fatal"
    /\ UNCHANGED <<ctrls, model, decodes, prevCur, before, crashed, pos, sink,
                   race, shown>>

\* Player.ScanMusicFiles called again on the running player
Rescan ==
    /\ lastOp \in {"Initialize", "Scan"}
    /\ \E w \in Walks :
         LET r == ScanMusicFiles(player, w) IN
           /\ player' = r.p
           /\ lastErr' = r.err
           /\ lastOp' = "Scan"
    /\ UNCHANGED <<ctrls, model, decodes, prevCur, before, crashed, pos, sink,
                   race, shown>>

NextScan == MainInitialize \/ Rescan

SpecScan == InitScan /\ [][NextScan]_vars

Next ==
    \/ KeySlash \/ KeySpace \/ KeyN \/ KeyP \/ KeyR \/ KeyS
    \/ KeyDown \/ KeyUp \/ KeyTop \/ KeyBottom \/ KeyEnter
    \/ SearchEnter \/ SearchEsc \/ SearchBackspace \/ SearchType
    \/ CallPlay \/ CallPause \/ CallResume \/ CallStop

Spec == Init /\ [][Next]_vars

(* ------------------------------ typing --------------------------------- *)
TypeOK ==
    /\ player.State \in {Stopped, Playing, Paused}
    /\ player.Ctrl \in 0..Len(ctrls)
    /\ Len(ctrls) <= MaxLoads
    /\ decodes \in {0, 1}
    /\ crashed \in BOOLEAN

(* ------------------------------ claims --------------------------------- *)
ViewLen == Len(player.FilteredTracks)

\* calls that end in Player.Play
PlayCallers == {"Play", "NextTrack", "PreviousTrack", "Enter"}

\* the playback installation: stream, format, active handle, loaded index
Installation(p) == <<p.Streamer, p.Format, p.Ctrl, p.LoadedTrack>>

\* C1: whenever the filtered view is non-empty, CurrentTrack lies in
\* 0..len(view)-1 (also right after a search that replaced the view).
C1_CurrentIndexInView ==
    ViewLen > 0 => player.CurrentTrack \in 0..(ViewLen - 1)

\* C2: a call whose loadTrack failed returns the load error and leaves the
\* state, the stream, the format, the active handle with its pause flag and
\* the loaded index as they were.
C2_FailedLoadChangesNothing ==
    [][lastErr' = ErrLoad =>
         /\ player'.State = player.State
         /\ Installation(player') = Installation(player)
         /\ ctrls' = ctrls]_vars

\* C3: in every reachable state, State = Stopped implies LoadedTrack = -1.
C3_StoppedHasSentinel ==
    player.State = Stopped => player.LoadedTrack = -1

\* C4: after a Play that returned no error the state is Playing, the loaded
\* index equals CurrentTrack, CurrentTrack is inside the view and the
\* active handle is not paused.
C4_PlaySucceeded ==
    (lastOp \in PlayCallers /\ lastErr = ErrNil /\ ~crashed) =>
        /\ player.State = Playing
        /\ player.LoadedTrack = player.CurrentTrack
        /\ player.CurrentTrack \in 0..(ViewLen - 1)
        /\ player.Ctrl # NoCtrl
        /\ ~ctrls[player.Ctrl].Paused

\* C5 as stated: a Play directly after a Play, on a non-empty view, calls
\* loadTrack no second time and changes nothing.
C5_SecondPlayIdle ==
    [][(lastOp = "Play" /\ lastOp' = "Play" /\ ViewLen > 0) =>
         /\ decodes' = 0
         /\ player' = player
         /\ ctrls' = ctrls]_vars

\* C5 amended: a Play directly after a Play that returned no error, on a
\* non-empty view, calls loadTrack no second time and changes nothing.
C5_SecondPlayIdleAfterSuccess ==
    [][(lastOp = "Play" /\ lastErr = ErrNil /\ lastOp' = "Play"
                        /\ ViewLen > 0) =>
         /\ decodes' = 0
         /\ lastErr' = ErrNil
         /\ player' = player
         /\ ctrls' = ctrls]_vars

C5_Witness ==
    /\ lastOp = "Play" /\ lastErr = ErrNil /\ decodes = 0
    /\ before.op = "Play" /\ before.err = ErrNil
    /\ ViewLen > 0
    /\ player.State = Playing
    /\ prevCur = player.CurrentTrack

\* C6: Play on an empty view returns the empty-playlist error, calls
\* loadTrack not at all and leaves the player and every handle unchanged.
C6_PlayOnEmptyView ==
    [][(ViewLen = 0 /\ lastOp' = "Play") =>
         /\ lastErr' = ErrEmpty
         /\ decodes' = 0
         /\ player' = player
         /\ ctrls' = ctrls]_vars

C6_Witness ==
    /\ lastOp = "Play" /\ lastErr = ErrEmpty
    /\ ViewLen = 0
    /\ player.CurrentTrack > 0
    /\ player.Streamer # NoStream

\* C7: with Repeat off and CurrentTrack at the last index, NextTrack returns
\* the end-of-playlist error, calls loadTrack not at all and leaves the
\* player (CurrentTrack included) and every handle unchanged.
C7_NextAtEndNoRepeat ==
    [][(~player.Repeat /\ ViewLen > 0 /\ player.CurrentTrack = ViewLen - 1
                       /\ lastOp' = "NextTrack") =>
         /\ lastErr' = ErrEnd
         /\ decodes' = 0
         /\ player' = player
         /\ ctrls' = ctrls]_vars

C7_Witness ==
    /\ lastOp = "NextTrack" /\ lastErr = ErrEnd
    /\ ~player.Repeat
    /\ ViewLen > 1
    /\ prevCur = ViewLen - 1
    /\ player.CurrentTrack = ViewLen - 1
    /\ player.State = Playing

\* C8: with Repeat on and CurrentTrack at the last index, NextTrack sets
\* CurrentTrack to 0 and, unless loadTrack fails, returns no error and
\* leaves the state Playing.
C8_NextAtEndRepeat ==
    [][(player.Repeat /\ ViewLen > 0 /\ player.CurrentTrack = ViewLen - 1
                      /\ lastOp' = "NextTrack") =>
         /\ player'.CurrentTrack = 0
         /\ ~crashed'
         /\ lastErr' # ErrLoad =>
              (lastErr' = ErrNil /\ player'.State = Playing)]_vars

C8_Witness ==
    /\ lastOp = "NextTrack" /\ lastErr = ErrNil /\ decodes = 1
    /\ player.Repeat
    /\ ViewLen > 1
    /\ prevCur = ViewLen - 1
    /\ player.CurrentTrack = 0
    /\ player.State = Playing

\* C9: with Repeat off, NextTrack from an index that is in range and not
\* the last, directly followed by PreviousTrack, brings CurrentTrack back
\* to that index, whatever loadTrack returned on the way.
C9_NextThenPrevious ==
    [][(lastOp = "NextTrack" /\ ~player.Repeat /\ ViewLen > 0
           /\ prevCur \in 0..(ViewLen - 2)
           /\ lastOp' = "PreviousTrack") =>
         player'.CurrentTrack = prevCur]_vars

C9_Witness ==
    /\ lastOp = "PreviousTrack"
    /\ before.op = "NextTrack" /\ before.err = ErrLoad
    /\ ~player.Repeat
    /\ before.cur \in 0..(ViewLen - 2)
    /\ prevCur = before.cur + 1
    /\ player.CurrentTrack = before.cur

\* C10: Pause changes the state only from Playing, to Paused, and Resume
\* only from Paused, to Playing; both keep the loaded index and the stream
\* and call loadTrack not at all; in any other state they change nothing.
C10_PauseResumeGuarded ==
    [][/\ lastOp' = "Pause" =>
            /\ decodes' = 0 /\ lastErr' = ErrNil
            /\ IF player.State = Playing
               THEN /\ player' = [player EXCEPT !.State = Paused]
                    /\ player.Ctrl # NoCtrl
                    /\ ctrls' = SetPaused(ctrls, player.Ctrl, TRUE)
               ELSE player' = player /\ ctrls' = ctrls
       /\ lastOp' = "Resume" =>
            /\ decodes' = 0 /\ lastErr' = ErrNil
            /\ IF player.State = Paused
               THEN /\ player' = [player EXCEPT !.State = Playing]
                    /\ player.Ctrl # NoCtrl
                    /\ ctrls' = SetPaused(ctrls, player.Ctrl, FALSE)
               ELSE player' = player /\ ctrls' = ctrls]_vars

C10_Witness ==
    /\ lastOp = "Pause"
    /\ player.State = Stopped
    /\ player.Ctrl # NoCtrl
    /\ player.LoadedTrack = -1

\* C11: after Stop and until the next successful Play no stream is loaded,
\* so GetPosition and GetLength both return zero.
C11_StopDiscardsStream ==
    (player.State = Stopped /\ player.LoadedTrack = -1) =>
        /\ player.Streamer = NoStream
        /\ GetPosition(player, pos) = 0
        /\ GetLength(player) = 0

\* path of the selected track, "" when GetCurrentTrack returns nil
SelectedPath(p) ==
    IF GetCurrentTrack(p) < 0 THEN ""
    ELSE p.FilteredTracks[GetCurrentTrack(p) + 1].Path

\* C12: when the track selected before a search is still in the new view,
\* CurrentTrack is that track's position in the new view afterwards.
C12_SearchKeepsSelection ==
    [][(lastOp' = "Search" /\ SelectedPath(player) # ""
          /\ \E i \in 1..Len(player'.FilteredTracks) :
               player'.FilteredTracks[i].Path = SelectedPath(player)) =>
         SelectedPath(player') = SelectedPath(player)]_vars

\* q is a substring of field, compared letter by letter without case
SubstringNoCase(q, field) ==
    \E off \in 0..(Len(field) - Len(q)) :
       \A k \in 1..Len(q) : LowerChar(field[off + k]) = LowerChar(q[k])

TrackHas(t, q) ==
    \/ SubstringNoCase(q, t.Title)
    \/ SubstringNoCase(q, t.Artist)
    \/ SubstringNoCase(q, t.Album)

\* positions in the catalog of the tracks that have q
Hits(cat, q) == {j \in 1..Len(cat) : TrackHas(cat[j], q)}

\* view holds exactly the tracks of cat that have q, in the order of cat
IsFilterOf(view, cat, q) ==
    /\ Len(view) = Cardinality(Hits(cat, q))
    /\ \A j \in Hits(cat, q) : \E i \in 1..Len(view) : view[i] = cat[j]
    /\ \A i \in 1..Len(view) : \E j \in Hits(cat, q) : view[i] = cat[j]
    /\ \A i, k \in 1..Len(view) :
         i < k => \E j, l \in 1..Len(cat) :
                    j < l /\ cat[j] = view[i] /\ cat[l] = view[k]

\* C13: after Search(q) the view holds exactly the tracks of the catalog
\* that have q without case in title, artist or album, in catalog order;
\* for the empty query it is the catalog; the catalog is unchanged.
C13_SearchFilters ==
    [][lastOp' = "Search" =>
         /\ player'.Tracks = player.Tracks
         /\ player'.SearchQuery = model.searchQuery
         /\ IsFilterOf(player'.FilteredTracks, player.Tracks,
                       model.searchQuery)
         /\ model.searchQuery = <<>> =>
              player'.FilteredTracks = player.Tracks]_vars

C13_Witness ==
    /\ lastOp = "Search"
    /\ player.SearchQuery = <<"B", "a">>
    /\ player.Tracks = <<Track1, Track2, Track3>>
    /\ player.FilteredTracks = <<Track2>>

\* C14: Search, ToggleRepeat, ToggleShuffle and cursor keys leave the state,
\* the loaded index, the stream and every pause flag unchanged; the two
\* toggles also leave the view and CurrentTrack unchanged.
C14_OnlyPlaybackCommandsChangePlayback ==
    [][/\ lastOp' \in {"Search", "ToggleRepeat", "ToggleShuffle", "Cursor"} =>
            /\ player'.State = player.State
            /\ Installation(player') = Installation(player)
            /\ ctrls' = ctrls
            /\ decodes' = 0
       /\ lastOp' \in {"ToggleRepeat", "ToggleShuffle"} =>
            /\ player'.FilteredTracks = player.FilteredTracks
            /\ player'.CurrentTrack = player.CurrentTrack]_vars

C14_Witness ==
    /\ lastOp = "ToggleShuffle"
    /\ player.Shuffle
    /\ player.State = Playing
    /\ player.CurrentTrack > 0
    /\ ~ctrls[player.Ctrl].Paused

\* C15: no call panics: the view is never read outside 0..len(view)-1, no
\* missing handle is dereferenced, CurrentTrack is never negative and the
\* cursor is negative only while the view is empty.
C15_NoCrash ==
    /\ ~crashed
    /\ player.CurrentTrack >= 0
    /\ model.cursor < 0 => ViewLen = 0

C15_Witness ==
    /\ lastOp = "Play" /\ lastErr = ErrNil
    /\ ViewLen > 0
    /\ prevCur >= ViewLen
    /\ ~crashed

Transport == {"Play", "Pause", "Resume", "Stop", "NextTrack", "PreviousTrack"}

C18_NoRaceWithSpeaker == ~race

\* C19: the state is Playing exactly when an active handle exists and is
\* not paused; while Paused or Stopped there is no handle or it is paused.
C19_StateAgreesWithOutput ==
    /\ player.State = Playing <=>
         (player.Ctrl # NoCtrl /\ ~ctrls[player.Ctrl].Paused)
    /\ player.State \in {Paused, Stopped} =>
         (player.Ctrl = NoCtrl \/ ctrls[player.Ctrl].Paused)

\* C20: while Playing or Paused with LoadedTrack = CurrentTrack inside the
\* view, the loaded stream was decoded from the path of the track at
\* CurrentTrack of the current view.
C20_LoadedIndexNamesTrack ==
    (/\ player.State \in {Playing, Paused}
     /\ player.LoadedTrack = player.CurrentTrack
     /\ player.CurrentTrack \in 0..(ViewLen - 1)) =>
        player.Streamer.path = player.FilteredTracks[player.CurrentTrack + 1].Path

\* C17: a scan that fails part-way returns the error and leaves the catalog
\* as it was before the scan, without the tracks the failed scan collected.
C17_FailedScanKeepsCatalog ==
    [][(lastOp' = "Scan" /\ lastErr' # ErrNil) =>
         player'.Tracks = player.Tracks]_vars

\* handles given to the speaker whose pause flag is false
Sounding == {h \in 1..Len(ctrls) : ~ctrls[h].Paused}

\* C21: of all handles ever given to the speaker at most one is unpaused,
\* and every handle superseded by a later successful Play stays paused
\* whatever is called afterwards.
C21_SingleStream ==
    /\ Cardinality(Sounding) <= 1
    /\ \A h \in 1..Len(ctrls) : h # player.Ctrl => ctrls[h].Paused

C21_Witness ==
    /\ lastOp = "Resume"
    /\ Len(ctrls) >= 2
    /\ player.Ctrl = Len(ctrls)
    /\ Sounding = {player.Ctrl}
    /\ player.State = Playing

====
